---- MODULE Spec2Model ----
(***************************************************************************)
(* A model of the prompt-resolution engine of the `asking` crate:          *)
(* QuestionBuilder::ask / ask_loop and its step functions                  *)
(* (src/src/question.rs).  Texts are sequences of tokens (a token is one   *)
(* character of an input line, or one opaque piece of a configured         *)
(* message); Option<T> is a sequence of length at most one.                *)
(***************************************************************************)
EXTENDS Integers, Sequences, FiniteSets, TLC

\* ------------------------------------------------------------------ bounds
\* The input stream delivers at most MaxInput lines before end-of-stream.
MaxInput == 2
\* Attempt budgets are drawn from 0..MaxAttempts (or None).
MaxAttempts == 2

\* ------------------------------------------------------------- Option<T>
None == <<>>
Some(v) == <<v>>
IsSome(o) == Len(o) = 1
Unwrap(o) == o[1]

\* ----------------------------------------------------------------- texts
EmptyText == <<>>
Whitespace == {" ", "\n", "\r", "\t"}

\* str::trim_end, the default preparser set by QuestionBuilder::new.
RECURSIVE TrimEnd(_)
TrimEnd(s) ==
    IF s = <<>> THEN s
    ELSE IF s[Len(s)] \in Whitespace THEN TrimEnd(SubSeq(s, 1, Len(s) - 1))
    ELSE s

\* Variant: only the line terminator is removed.
preparser_newline_only(s) ==
    IF s # <<>> /\ s[Len(s)] = "\n" THEN SubSeq(s, 1, Len(s) - 1) ELSE s

preparser(s) == TrimEnd(s)

\* The default error_formatter set by QuestionBuilder::new: |s| s + "\n".
error_formatter(s) == s \o <<"\n">>

\* ------------------------------------------------------------ the parser
Digits == {"0", "1", "2", "3", "4", "5", "6", "7", "8", "9"}
DigitVal(c) ==
    CASE c = "0" -> 0 [] c = "1" -> 1 [] c = "2" -> 2 [] c = "3" -> 3
      [] c = "4" -> 4 [] c = "5" -> 5 [] c = "6" -> 6 [] c = "7" -> 7
      [] c = "8" -> 8 [] c = "9" -> 9

RECURSIVE DecimalValue(_)
DecimalValue(s) ==
    IF s = <<>> THEN 0
    ELSE 10 * DecimalValue(SubSeq(s, 1, Len(s) - 1)) + DigitVal(s[Len(s)])

Ok(v) == [ok |-> TRUE, val |-> Some(v), err |-> EmptyText]
Err(e) == [ok |-> FALSE, val |-> None, err |-> e]

\* <u32 as FromStr>::from_str, the parser of new_fromstr for T = u32.
ParseU32(s) ==
    IF s = <<>> THEN Err(<<"cannot parse integer from empty string">>)
    ELSE IF \E i \in 1..Len(s) : s[i] \notin Digits
         THEN Err(<<"invalid digit found in string">>)
         ELSE Ok(DecimalValue(s))

\* <String as FromStr>::from_str, the parser of new_fromstr for T = String
\* (pattern::text): it accepts every text, the empty one included.
ParseString(s) == Ok(s)

\* char::to_lowercase on the letters of the modelled alphabet.
ToLowercase(c) ==
    CASE c = "Y" -> "y" [] c = "E" -> "e" [] c = "S" -> "s" [] c = "T" -> "t"
      [] c = "R" -> "r" [] c = "U" -> "u" [] c = "N" -> "n" [] c = "O" -> "o"
      [] c = "F" -> "f" [] c = "A" -> "a" [] c = "L" -> "l" [] c = "M" -> "m"
      [] OTHER -> c

\* str::to_lowercase
to_lowercase(s) == [i \in 1..Len(s) |-> ToLowercase(s[i])]

\* <bool as FromStr>::from_str (its error text without the quoting marks)
ParseBool(s) ==
    IF s = <<"t", "r", "u", "e">> THEN Ok(TRUE)
    ELSE IF s = <<"f", "a", "l", "s", "e">> THEN Ok(FALSE)
    ELSE Err(<<"provided string was not true or false">>)

\* Variant: the text is matched as typed, without lowercasing.
ParseYn_as_typed(s) ==
    IF s \in {<<"t", "r", "u", "e">>, <<"t">>, <<"y", "e", "s">>, <<"y">>} THEN Ok(TRUE)
    ELSE IF s \in {<<"f", "a", "l", "s", "e">>, <<"f">>, <<"n", "o">>, <<"n">>} THEN Ok(FALSE)
    ELSE ParseBool(s)

\* The parser of pattern::yn.
ParseYn(s) ==
    LET lower == to_lowercase(s)
    IN  IF lower \in {<<"t", "r", "u", "e">>, <<"t">>, <<"y", "e", "s">>, <<"y">>}
        THEN Ok(TRUE)
        ELSE IF lower \in {<<"f", "a", "l", "s", "e">>, <<"f">>, <<"n", "o">>, <<"n">>}
        THEN Ok(FALSE)
        ELSE ParseBool(s)

\* (self.parser.0)(input)
RunParser(kind, s) ==
    CASE kind = "u32" -> ParseU32(s)
      [] kind = "bool" -> ParseYn(s)
      [] kind = "bool_from_str" -> ParseBool(s)
      [] OTHER -> ParseString(s)

\* --------------------------------------------------------- the validators
\* Entries of self.str_tests, as pushed by the *_length_with_msg builders.
StrTestPasses(t, s) ==
    CASE t.kind = "length" -> Len(s) = t.n
      [] t.kind = "max_length" -> Len(s) <= t.n
      [] t.kind = "min_length" -> Len(s) >= t.n

\* Entries of self.tests, as pushed by min/max/not _with_msg.
TestPasses(t, v) ==
    CASE t.kind = "min" -> v >= t.bound
      [] t.kind = "max" -> v <= t.bound
      [] t.kind = "not" -> v # t.bound

\* Index of the first entry of a validator list that fails, 0 when none does.
RECURSIVE FirstFailFrom(_, _, _)
FirstFailFrom(passes, n, i) ==
    IF i > n THEN 0
    ELSE IF ~passes[i] THEN i
    ELSE FirstFailFrom(passes, n, i + 1)

\* Variant: the last failing string validator reports.
FirstStrFail_last(ts, s) ==
    LET failing == {i \in 1..Len(ts) : ~StrTestPasses(ts[i], s)}
    IN  IF failing = {} THEN 0 ELSE CHOOSE i \in failing : \A j \in failing : j <= i

FirstStrFail(ts, s) ==
    FirstFailFrom([i \in 1..Len(ts) |-> StrTestPasses(ts[i], s)], Len(ts), 1)

\* Variant: the value validators let every value by.
FirstTestFail_none(ts, v) == 0

FirstTestFail(ts, v) ==
    FirstFailFrom([i \in 1..Len(ts) |-> TestPasses(ts[i], v)], Len(ts), 1)

\* ---------------------------------------------------------- configuration
\* Texts set by the builder calls of the modelled configurations.
MessageText == <<"Please input a number between 2 and 4, that is not 3.", "\n">>
HelpText == <<"Please, try again: ">>
RequiredText == <<"Sorry, I need this. Give me an answer please.">>

\* feedback: |value| format!("You chose {}!", value)
ValueText(kind, v) ==
    CASE kind = "u32" -> <<ToString(v)>>
      [] kind \in {"bool", "bool_from_str"} -> <<IF v THEN "true" ELSE "false">>
      [] OTHER -> v
feedback(kind, v) == <<"You chose ">> \o ValueText(kind, v) \o <<"!">>

\* The closure given to attempts_with_feedback.
attempts_feedback(n) == <<"Attempts left: ", ToString(n), "\n">>

\* The lines the input stream may deliver (each with its line terminator).
RawLines ==
    { <<"\n">>, <<"2", "\n">>, <<"3", "\n">>, <<"2", "3", "\n">> }

\* The spellings of a word in upper and lower case letters.
Uppercase(c) ==
    CASE c = "y" -> "Y" [] c = "e" -> "E" [] c = "s" -> "S" [] c = "t" -> "T"
      [] c = "r" -> "R" [] c = "u" -> "U" [] c = "n" -> "N" [] c = "o" -> "O"
      [] c = "f" -> "F" [] c = "a" -> "A" [] c = "l" -> "L" [] c = "m" -> "M"
      [] OTHER -> c

Spellings(word) ==
    {s \in [1..Len(word) -> {word[i] : i \in 1..Len(word)}
                             \cup {Uppercase(word[i]) : i \in 1..Len(word)}] :
        \A i \in 1..Len(word) : s[i] \in {word[i], Uppercase(word[i])}}

TrueWords == {<<"y">>, <<"y", "e", "s">>, <<"t">>, <<"t", "r", "u", "e">>}
FalseWords == {<<"n">>, <<"n", "o">>, <<"f">>, <<"f", "a", "l", "s", "e">>}

\* Texts close to the words of yes/no that are none of them.
OtherWords ==
    { <<"m">>, <<"y", "e">>, <<"y", "e", "s", "s">>, <<"t", "r", "u">>, <<"o", "n">>,
      <<"1">>, <<"0">>, <<" ", "y">>, <<"n", "o", "t">>, <<"Y", "e", "a">> }

\* The lines the input stream may deliver to a yes/no question: every
\* spelling of the eight words, some other texts and the empty line, each
\* with its terminator, and "YES" as the last line of a stream without one.
YnLines ==
    {w \o <<"\n">> : w \in UNION {Spellings(x) : x \in TrueWords \cup FalseWords}
                              \cup OtherWords \cup {EmptyText}}
    \cup {<<"Y", "E", "S">>}

\* str_tests lists built by chains of length-validator builder calls;
\* every builder pushes its entry with the display flag set.
StrTestLists ==
    { <<>>,
      << [kind |-> "max_length", n |-> 1, show |-> TRUE,
          msg |-> <<"The input needs to have length at most 1.">>],
         [kind |-> "length", n |-> 1, show |-> TRUE,
          msg |-> <<"The input needs to have length exactly 1.">>] >> }

\* tests lists built by chains of min/not/max builder calls
\* (examples/constrain.rs); none for T = String.
TestLists(kind) ==
    IF kind = "u32"
    THEN { <<>>,
           << [kind |-> "min", bound |-> 2, show |-> TRUE,
               msg |-> <<"The value can not be so small.">>],
              [kind |-> "not", bound |-> 3, show |-> TRUE,
               msg |-> <<"This value is not allowed.">>],
              [kind |-> "max", bound |-> 4, show |-> TRUE,
               msg |-> <<"The value can not be so big.">>] >> }
    ELSE { <<>> }

\* default_value: the default is not tested, so one failing the tests is allowed.
Defaults(kind) == IF kind = "u32" THEN {None, Some(3)} ELSE {None, Some(<<"x">>)}

\* The display flag of the parser: parser_feedback_toggle switches it; the
\* parser of T = String never fails, so its flag is left as built.
ParserFlags(kind) == IF kind = "u32" THEN BOOLEAN ELSE {FALSE}

\* ------------------------------------------------------------------ state
VARIABLES
    reader,       \* self.reader: which stream the lines are read from
    writer,       \* self.writer: which stream the texts are written to
    message,      \* self.message: (String, bool)
    help,         \* self.help: (String, bool)
    default,      \* self.default: Option<T>
    required,     \* self.required: (String, bool)
    parser,       \* self.parser: (function, bool)
    str_tests,    \* self.str_tests
    tests,        \* self.tests
    executor,     \* self.executor: Executor::None or Executor::Timeout
    duration,     \* the Duration of Executor::Timeout (0 under Executor::None)
    formatter,    \* self.error_formatter: the default one, or |_| "" (silent)
    attempts,     \* self.attempts: Option<(usize, feedback)>, the count
    attempts0,    \* the budget the configuration was built with
    nread,        \* lines the reader has delivered so far
    out,          \* what the writer has received
    pc,           \* position of ask_loop
    preinput,     \* local of ask_loop: Option of the raw line
    input,        \* local of ask_loop: Option of the preprocessed text
    proposal,     \* local of ask_loop: Option of the parsed value
    result,       \* what ask returned ("none" while running)
    value,        \* the value of Ok(value)
    log           \* history of the operations performed, in order

config ==
    <<reader, writer, default, required, parser, str_tests, tests, executor, duration,
      formatter, attempts0>>
locals == <<preinput, input, proposal>>
vars == <<message, help, config, attempts, nread, out, pc, locals, result, value, log>>

\* ------------------------------------------------------------- operations
\* Variant: the text reaches the writer without passing the formatter.
format_error_raw(text) == text

\* (self.error_formatter)(text): the closure of QuestionBuilder::new, or the
\* one set by error_formatter(|_| "".to_string()) (examples/silent_error.rs).
format_error(text) == IF formatter = "silent" THEN EmptyText ELSE error_formatter(text)

Event(op, n, text) == [op |-> op, n |-> n, text |-> text]

WriteOps ==
    { "write_message", "write_attempts_feedback", "write_error",
      "write_required", "write_help", "write_feedback" }
\* The operations at which the future suspends.
IoOps == WriteOps \cup {"read_line"}

RECURSIVE NumIo(_)
NumIo(ops) ==
    IF ops = <<>> THEN 0
    ELSE (IF Head(ops).op \in IoOps THEN 1 ELSE 0) + NumIo(Tail(ops))

\* The operations of ops performed before its k-th I/O operation starts.
RECURSIVE PrefixBefore(_, _)
PrefixBefore(ops, k) ==
    IF ops = <<>> THEN <<>>
    ELSE IF Head(ops).op \in IoOps
         THEN IF k = 1 THEN <<>>
              ELSE <<Head(ops)>> \o PrefixBefore(Tail(ops), k - 1)
         ELSE <<Head(ops)>> \o PrefixBefore(Tail(ops), k)

\* The bytes the writes among ops send to the writer.
RECURSIVE Written(_)
Written(ops) ==
    IF ops = <<>> THEN <<>>
    ELSE (IF Head(ops).op \in WriteOps THEN Head(ops).text ELSE <<>>)
         \o Written(Tail(ops))

HasOp(ops, op) == \E i \in 1..Len(ops) : ops[i].op = op

\* Variant: a text is cleared once written, repeating or not.
Cleared_always(pair, written) ==
    IF written THEN [text |-> EmptyText, repeat |-> FALSE] ELSE pair

\* Variant: a text is never cleared.
Cleared_never(pair, written) == pair

\* write_message / display_help: a (text, false) pair is cleared once written.
Cleared(pair, written) ==
    IF written /\ ~pair.repeat THEN [text |-> EmptyText, repeat |-> FALSE] ELSE pair

\* ----------------------------------------------- the steps' operations
\* Variant: the attempts check lets a budget of 0 through.
check_attempts_never(att) == "Ok"

\* Variant: the loop stops while one attempt is left.
check_attempts_one_left(att) ==
    IF IsSome(att) /\ Unwrap(att) <= 1 THEN "NoMoreAttempts" ELSE "Ok"

\* check_attempts: Some((0, _)) => Err(NoMoreAttempts), _ => Ok(()).
check_attempts(att) == IF IsSome(att) /\ Unwrap(att) = 0 THEN "NoMoreAttempts" ELSE "Ok"

\* Variant: the message is not written.
write_message_ops_skipped(msg) == <<>>

write_message_ops(msg) == <<Event("write_message", 0, msg.text)>>

\* Variant: the feedback shows the count left after this attempt.
write_attempts_feedback_after(att) ==
    IF IsSome(att)
    THEN <<Event("write_attempts_feedback", Unwrap(att) - 1,
                 attempts_feedback(Unwrap(att) - 1))>>
    ELSE <<>>

\* Variant: the feedback shows one attempt more than is left.
write_attempts_feedback_one_more(att) ==
    IF IsSome(att)
    THEN <<Event("write_attempts_feedback", Unwrap(att) + 1,
                 attempts_feedback(Unwrap(att) + 1))>>
    ELSE <<>>

write_attempts_feedback_ops(att) ==
    IF IsSome(att)
    THEN <<Event("write_attempts_feedback", Unwrap(att), attempts_feedback(Unwrap(att)))>>
    ELSE <<>>

\* Variant: a read of 0 bytes is taken for an empty line.
take_input_no_eof(bytes) == "Ok"

\* take_input: read_line returning 0 bytes is Err(Eof).
take_input(bytes) == IF bytes = 0 THEN "Eof" ELSE "Ok"

\* usize::MAX, at a reduced width: what 0 - 1 wraps to without overflow checks.
UsizeMax == 65535
\* Variant: the decrement is missing.
wrapping_decrement_missing(left) == left

\* Variant: the count moves the wrong way.
wrapping_decrement_up(left) == left + 1

wrapping_decrement(left) == IF left = 0 THEN UsizeMax ELSE left - 1

\* Variant: the early return is missing.
default_applies_never(text, req, def) == FALSE

\* Variant: the early return forgets the required flag.
default_applies_ignoring_required(text, req, def) == text = EmptyText /\ IsSome(def)

\* The condition of the early return of ask_loop.
default_applies(text, req, def) == text = EmptyText /\ ~req.flag /\ IsSome(def)

display_help_ops(hlp) == <<Event("write_help", 0, hlp.text)>>

\* Variant: help comes before the error text.
failure_ops_help_first(entry, hlp) ==
    display_help_ops(hlp)
    \o (IF entry.show THEN <<Event("write_error", 0, format_error(entry.msg))>> ELSE <<>>)

\* What a failing validator entry does: its error text if displayed, then help.
failure_ops(entry, hlp) ==
    (IF entry.show THEN <<Event("write_error", 0, format_error(entry.msg))>> ELSE <<>>)
    \o display_help_ops(hlp)

test_string_ops(ts, hlp, text) ==
    LET i == FirstStrFail(ts, text)
        last == IF i = 0 THEN Len(ts) ELSE i
    IN  [j \in 1..last |-> Event("str_test", j, text)]
        \o (IF i = 0 THEN <<>> ELSE failure_ops(ts[i], hlp))

\* Variant: the parser's error text comes before help.
parse_input_ops_error_first(req, prs, hlp, text) ==
    LET warn == text = EmptyText /\ req.flag
        parsed == RunParser(prs.kind, text)
    IN  (IF warn
         THEN display_help_ops(hlp)
              \o <<Event("write_required", 0, format_error(req.msg))>>
         ELSE <<>>)
        \o <<Event("parser", 0, text)>>
        \o (IF parsed.ok THEN <<>>
            ELSE (IF prs.flag
                  THEN <<Event("write_error", 0, format_error(parsed.err))>>
                  ELSE <<>>)
                 \o display_help_ops(Cleared(hlp, warn)))

\* Variant: the required warning ends the step, the parser is not called.
parse_input_ops_warning_only(req, prs, hlp, text) ==
    LET warn == text = EmptyText /\ req.flag
        parsed == RunParser(prs.kind, text)
    IN  IF warn
        THEN display_help_ops(hlp)
             \o <<Event("write_required", 0, format_error(req.msg))>>
        ELSE <<Event("parser", 0, text)>>
             \o (IF parsed.ok THEN <<>>
                 ELSE display_help_ops(hlp)
                      \o (IF prs.flag
                          THEN <<Event("write_error", 0, format_error(parsed.err))>>
                          ELSE <<>>))

parse_input_ops(req, prs, hlp, text) ==
    LET warn == text = EmptyText /\ req.flag
        parsed == RunParser(prs.kind, text)
    IN  (IF warn
         THEN display_help_ops(hlp)
              \o <<Event("write_required", 0, format_error(req.msg))>>
         ELSE <<>>)
        \o <<Event("parser", 0, text)>>
        \o (IF parsed.ok THEN <<>>
            ELSE display_help_ops(Cleared(hlp, warn))
                 \o (IF prs.flag
                     THEN <<Event("write_error", 0, format_error(parsed.err))>>
                     ELSE <<>>))

test_proposal_ops(ts, hlp, v) ==
    LET i == FirstTestFail(ts, v)
        last == IF i = 0 THEN Len(ts) ELSE i
    IN  [j \in 1..last |-> Event("test", j, EmptyText)]
        \o (IF i = 0 THEN <<>> ELSE failure_ops(ts[i], hlp))

\* Variant: the value is returned without its feedback.
give_feedback_ops_silent(kind, v) == <<>>

give_feedback_ops(kind, v) == <<Event("write_feedback", 0, feedback(kind, v))>>

\* Variant: the timer is armed whatever the executor.
TimerArmed_always(ex) == TRUE

\* Variant: the loop is awaited without a timer, whatever the executor.
TimerArmed_never(ex) == FALSE

\* ask: the loop is raced against a timer only under Executor::Timeout.
TimerArmed(ex) == ex = "Timeout"

\* ------------------------------------------------------------------- Init
\* The state in which ask is called on a built configuration.
\* The streams of the process, as question() and yn() take them.
StdStreams == reader = "stdin" /\ writer = "stdout"

Start ==
    /\ StdStreams
    /\ attempts = attempts0
    /\ nread = 0
    /\ out = <<>>
    /\ pc = "check_attempts"
    /\ preinput = None /\ input = None /\ proposal = None
    /\ result = "none"
    /\ value = None
    /\ log = <<>>

Init ==
    /\ \E kind \in {"u32", "String"} :
          /\ parser \in [kind : {kind}, flag : ParserFlags(kind)]
          /\ default \in Defaults(kind)
          /\ tests \in TestLists(kind)
    /\ message \in [text : {MessageText}, repeat : BOOLEAN]
    /\ help \in [text : {HelpText}, repeat : BOOLEAN]
    /\ required \in [msg : {RequiredText}, flag : BOOLEAN]
    /\ str_tests \in StrTestLists
    /\ executor \in {"None", "Timeout"}
    /\ duration = (IF executor = "Timeout" THEN 1 ELSE 0)
    /\ formatter = "newline"
    /\ attempts0 \in {None} \cup {Some(n) : n \in 0..MaxAttempts}
    /\ Start

\* ---------------------------------------------------------------- actions
\* The effect of having performed the operations done, then extra bookkeeping.
Commit(done, extra) ==
    /\ out' = out \o Written(done)
    /\ message' = Cleared(message, HasOp(done, "write_message"))
    /\ help' = Cleared(help, HasOp(done, "write_help"))
    /\ log' = log \o done \o extra

Return(r, v) == pc' = "done" /\ result' = r /\ value' = v

\* Variant: the loop restarts at the read, past the message.
Restart_at_read ==
    /\ pc' = "take_input"
    /\ preinput' = None /\ input' = None /\ proposal' = None
    /\ UNCHANGED <<result, value>>

\* `continue`: the locals of the iteration are dropped.
Restart ==
    /\ pc' = "check_attempts"
    /\ preinput' = None /\ input' = None /\ proposal' = None
    /\ UNCHANGED <<result, value>>

Goto(next) == pc' = next /\ UNCHANGED <<locals, result, value>>

Fault == <<Event("fault", 0, EmptyText)>>

CheckAttempts ==
    /\ pc = "check_attempts"
    /\ Commit(<<Event("check_attempts", 0, EmptyText)>>, <<>>)
    /\ IF check_attempts(attempts) = "NoMoreAttempts"
       THEN Return("NoMoreAttempts", None) /\ UNCHANGED locals
       ELSE Goto("write_message")
    /\ UNCHANGED <<config, attempts, nread>>

WriteMessage ==
    /\ pc = "write_message"
    /\ LET ops == write_message_ops(message)
       IN  \E k \in 0..NumIo(ops) :
              IF k = 0
              THEN Commit(ops, <<>>) /\ Goto("write_attempts_feedback")
              ELSE /\ Commit(PrefixBefore(ops, k), Fault)
                   /\ Return("Io", None) /\ UNCHANGED locals
    /\ UNCHANGED <<config, attempts, nread>>

WriteAttemptsFeedback ==
    /\ pc = "write_attempts_feedback"
    /\ LET ops == write_attempts_feedback_ops(attempts)
       IN  \E k \in 0..NumIo(ops) :
              IF k = 0
              THEN Commit(ops, <<>>) /\ Goto("take_input")
              ELSE /\ Commit(PrefixBefore(ops, k), Fault)
                   /\ Return("Io", None) /\ UNCHANGED locals
    /\ UNCHANGED <<config, attempts, nread>>

\* What read_line may give: a line while the stream has one, or nothing
\* (0 bytes) at end-of-stream.
ReadResults(n) ==
    IF n < MaxInput
    THEN (IF parser.kind \in {"bool", "bool_from_str"} THEN YnLines ELSE RawLines) \cup {EmptyText}
    ELSE {EmptyText}

\* take_input, the reader giving one of results.
TakeInputFrom(results) ==
    /\ pc = "take_input"
    /\ \/ \E line \in results :
             /\ Commit(<<Event("read_line", Len(line), line)>>, <<>>)
             /\ nread' = nread + (IF line = EmptyText THEN 0 ELSE 1)
             /\ IF take_input(Len(line)) = "Eof"
                THEN Return("Eof", None) /\ UNCHANGED locals
                ELSE /\ preinput' = Some(line)
                     /\ pc' = "decrease_attempts"
                     /\ UNCHANGED <<input, proposal, result, value>>
       \/ /\ Commit(<<>>, Fault)
          /\ Return("Io", None)
          /\ UNCHANGED <<nread, locals>>
    /\ UNCHANGED <<config, attempts>>

TakeInput == TakeInputFrom(ReadResults(nread))

\* `*left_attempts -= 1`: on 0 a build with overflow checks panics, one
\* without wraps around.
DecreaseAttempts ==
    /\ pc = "decrease_attempts"
    /\ Commit(<<Event("decrease_attempts", 0, EmptyText)>>, <<>>)
    /\ \E checked \in BOOLEAN :
          IF IsSome(attempts) /\ Unwrap(attempts) = 0 /\ checked
          THEN /\ Return("Panic", None)
               /\ UNCHANGED <<attempts, locals>>
          ELSE /\ attempts' = IF IsSome(attempts)
                              THEN Some(wrapping_decrement(Unwrap(attempts)))
                              ELSE attempts
               /\ Goto("preparser")
    /\ UNCHANGED <<config, nread>>

Preparse ==
    /\ pc = "preparser"
    /\ LET text == preparser(Unwrap(preinput))
       IN  IF default_applies(text, required, default)
           THEN /\ Commit(<<Event("preparser", 0, text)>>,
                          <<Event("return_default", 0, EmptyText)>>)
                /\ input' = Some(text)
                /\ Return("Ok", default)
                /\ UNCHANGED <<preinput, proposal>>
           ELSE /\ Commit(<<Event("preparser", 0, text)>>, <<>>)
                /\ input' = Some(text)
                /\ pc' = "test_string"
                /\ UNCHANGED <<preinput, proposal, result, value>>
    /\ UNCHANGED <<config, attempts, nread>>

\* An I/O error inside test_string becomes its Err, which ask_loop answers
\* with `continue` like a failed test.
TestString ==
    /\ pc = "test_string"
    /\ LET ops == test_string_ops(str_tests, help, Unwrap(input))
       IN  \E k \in 0..NumIo(ops) :
              IF k = 0
              THEN /\ Commit(ops, <<>>)
                   /\ IF FirstStrFail(str_tests, Unwrap(input)) = 0
                      THEN Goto("parse_input")
                      ELSE Restart
              ELSE Commit(PrefixBefore(ops, k), Fault) /\ Restart
    /\ UNCHANGED <<config, attempts, nread>>

ParseInput ==
    /\ pc = "parse_input"
    /\ LET ops == parse_input_ops(required, parser, help, Unwrap(input))
           parsed == RunParser(parser.kind, Unwrap(input))
       IN  \E k \in 0..NumIo(ops) :
              IF k = 0
              THEN /\ Commit(ops, <<>>)
                   /\ IF parsed.ok
                      THEN /\ proposal' = parsed.val
                           /\ pc' = "test_proposal"
                           /\ UNCHANGED <<preinput, input, result, value>>
                      ELSE Restart
              ELSE Commit(PrefixBefore(ops, k), Fault) /\ Restart
    /\ UNCHANGED <<config, attempts, nread>>

TestProposal ==
    /\ pc = "test_proposal"
    /\ LET ops == test_proposal_ops(tests, help, Unwrap(proposal))
       IN  \E k \in 0..NumIo(ops) :
              IF k = 0
              THEN /\ Commit(ops, <<>>)
                   /\ IF FirstTestFail(tests, Unwrap(proposal)) = 0
                      THEN Goto("give_feedback")
                      ELSE Restart
              ELSE Commit(PrefixBefore(ops, k), Fault) /\ Restart
    /\ UNCHANGED <<config, attempts, nread>>

GiveFeedback ==
    /\ pc = "give_feedback"
    /\ LET ops == give_feedback_ops(parser.kind, Unwrap(proposal))
       IN  \E k \in 0..NumIo(ops) :
              IF k = 0
              THEN Commit(ops, <<>>) /\ Return("Ok", proposal)
              ELSE Commit(PrefixBefore(ops, k), Fault) /\ Return("Io", None)
    /\ UNCHANGED <<config, attempts, nread, locals>>

\* Variant: the write of the feedback is out of the timer's reach.
StepOps_without_feedback(p) ==
    CASE p = "write_message" -> write_message_ops(message)
      [] p = "write_attempts_feedback" -> write_attempts_feedback_ops(attempts)
      [] p = "take_input" -> <<Event("read_line", 0, EmptyText)>>
      [] p = "test_string" -> test_string_ops(str_tests, help, Unwrap(input))
      [] p = "parse_input" -> parse_input_ops(required, parser, help, Unwrap(input))
      [] p = "test_proposal" -> test_proposal_ops(tests, help, Unwrap(proposal))
      [] OTHER -> <<>>

\* The operations the step at position p is about to perform.
StepOps(p) ==
    CASE p = "write_message" -> write_message_ops(message)
      [] p = "write_attempts_feedback" -> write_attempts_feedback_ops(attempts)
      [] p = "take_input" -> <<Event("read_line", 0, EmptyText)>>
      [] p = "test_string" -> test_string_ops(str_tests, help, Unwrap(input))
      [] p = "parse_input" -> parse_input_ops(required, parser, help, Unwrap(input))
      [] p = "test_proposal" -> test_proposal_ops(tests, help, Unwrap(proposal))
      [] p = "give_feedback" -> give_feedback_ops(parser.kind, Unwrap(proposal))
      [] OTHER -> <<>>

\* Variant: what the resolution wrote is discarded when the timer fires.
TimeoutFires_discarding ==
    /\ TimerArmed(executor)
    /\ pc # "done"
    /\ NumIo(StepOps(pc)) > 0
    /\ out' = <<>>
    /\ log' = log \o <<Event("timeout", 0, EmptyText)>>
    /\ Return("Timeout", None)
    /\ UNCHANGED <<message, help, config, attempts, nread, locals>>

\* async_std::future::timeout: the timer fires while the loop is suspended
\* at an I/O operation; the loop is dropped there.
TimeoutFires ==
    /\ TimerArmed(executor)
    /\ pc # "done"
    /\ LET ops == StepOps(pc)
       IN  \E k \in 1..NumIo(ops) :
              Commit(PrefixBefore(ops, k), <<Event("timeout", 0, EmptyText)>>)
    /\ Return("Timeout", None)
    /\ UNCHANGED <<config, attempts, nread, locals>>

Next ==
    \/ CheckAttempts
    \/ WriteMessage
    \/ WriteAttemptsFeedback
    \/ TakeInput
    \/ DecreaseAttempts
    \/ Preparse
    \/ TestString
    \/ ParseInput
    \/ TestProposal
    \/ GiveFeedback
    \/ TimeoutFires

Spec == Init /\ [][Next]_vars

\* Configurations with either error formatter, for T = u32 under a timeout.
InitFormatter ==
    /\ parser \in [kind : {"u32"}, flag : BOOLEAN]
    /\ default = None
    /\ tests \in TestLists("u32") \ {<<>>}
    /\ message = [text |-> MessageText, repeat |-> FALSE]
    /\ help \in [text : {HelpText}, repeat : BOOLEAN]
    /\ required \in [msg : {RequiredText}, flag : BOOLEAN]
    /\ str_tests \in StrTestLists
    /\ executor = "Timeout"
    /\ duration = 1
    /\ formatter \in {"newline", "silent"}
    /\ attempts0 \in {None, Some(MaxAttempts)}
    /\ Start

SpecFormatter == InitFormatter /\ [][Next]_vars

\* Configurations without validators: only the parser decides.
InitPlain ==
    /\ \E kind \in {"u32", "String"} :
          /\ parser \in [kind : {kind}, flag : ParserFlags(kind)]
          /\ default \in Defaults(kind)
    /\ tests = <<>>
    /\ str_tests = <<>>
    /\ message \in [text : {MessageText}, repeat : BOOLEAN]
    /\ help = [text |-> HelpText, repeat |-> FALSE]
    /\ required \in [msg : {RequiredText}, flag : BOOLEAN]
    /\ executor \in {"None", "Timeout"}
    /\ duration = (IF executor = "Timeout" THEN 1 ELSE 0)
    /\ formatter = "newline"
    /\ attempts0 \in {None} \cup {Some(n) : n \in 0..MaxAttempts}
    /\ Start

SpecPlain == InitPlain /\ [][Next]_vars

\* asking::yn() with a message and a feedback, under a timeout.
MessageYn == <<"Continue? ">>

InitYn ==
    /\ parser = [kind |-> "bool", flag |-> FALSE]
    /\ default = None
    /\ tests = <<>>
    /\ message = [text |-> MessageYn, repeat |-> FALSE]
    /\ help \in [text : {HelpText}, repeat : BOOLEAN]
    /\ required = [msg |-> EmptyText, flag |-> FALSE]
    /\ str_tests = <<>>
    /\ executor = "Timeout"
    /\ duration = 1
    /\ formatter = "newline"
    /\ attempts0 \in {None, Some(MaxAttempts)}
    /\ Start

SpecYn == InitYn /\ [][Next]_vars

TypeOK ==
    /\ pc \in { "check_attempts", "write_message", "write_attempts_feedback",
                "take_input", "decrease_attempts", "preparser", "test_string",
                "parse_input", "test_proposal", "give_feedback", "done", "build" }
    /\ result \in {"none", "Ok", "NoMoreAttempts", "Eof", "Io", "Timeout", "Panic"}
    /\ nread \in 0..MaxInput

\* ------------------------------------------------- reading the history
\* Index of the last event of the log with operation op, 0 when there is none.
LastIndex(op) ==
    LET idx == {i \in 1..Len(log) : log[i].op = op}
    IN  IF idx = {} THEN 0 ELSE CHOOSE i \in idx : \A j \in idx : j <= i

\* The events of the iteration under way: those after its attempts check.
Iteration == SubSeq(log, LastIndex("check_attempts") + 1, Len(log))

\* The events that follow the last read.
AfterRead == SubSeq(log, LastIndex("read_line") + 1, Len(log))

OpsOf(events) == [i \in 1..Len(events) |-> events[i].op]

Select(op) == SelectSeq(log, LAMBDA e : e.op = op)

\* Index in the log of the i-th event with operation op.
NthIndex(op, i) ==
    CHOOSE k \in 1..Len(log) :
        /\ log[k].op = op
        /\ Cardinality({j \in 1..k : log[j].op = op}) = i

\* A read that found the end of the stream.
EndOfStreamRead(e) == e.op = "read_line" /\ e.n = 0

\* ------------------------------------------------------------------ claims

\* C1: with an attempts budget of Some(0) the resolution returns
\* NoMoreAttempts without writing anything (the message included) and
\* without reading from the input.
C1_ZeroBudgetNeverPrompts ==
    attempts0 = Some(0) =>
        /\ out = <<>>
        /\ nread = 0
        /\ \A i \in 1..Len(log) : log[i].op \notin IoOps \cup {"fault", "timeout"}
        /\ pc \in {"check_attempts", "done"}
        /\ pc = "done" => result = "NoMoreAttempts"

C1_Witness ==
    /\ attempts0 = Some(0)
    /\ message.text # EmptyText
    /\ result = "NoMoreAttempts"
    /\ executor = "Timeout"

\* C2: on an attempt whose preprocessed text is empty, with required false
\* and a default set, the resolution returns Ok(default) at once: after the
\* read only the decrement and the preparser happen, so no validator and no
\* parser is invoked and no help or error text is written.
C2_DefaultShortCircuit ==
    (IsSome(input) /\ Unwrap(input) = EmptyText /\ ~required.flag /\ IsSome(default)) =>
        /\ pc = "done"
        /\ result = "Ok"
        /\ value = default
        /\ OpsOf(AfterRead) = <<"decrease_attempts", "preparser", "return_default">>

C2_Witness ==
    /\ parser.kind = "u32"
    /\ result = "Ok"
    /\ input = Some(EmptyText)
    /\ value = Some(3)
    /\ str_tests # <<>>
    /\ tests # <<>>
    /\ nread = 2

\* C3: with required set, an attempt whose line is empty never returns the
\* default, even when one is set: it goes on to the string validators and,
\* when they pass, to the parser, and it has consumed one attempt.
C3_RequiredEmptyNeverDefault ==
    (required.flag /\ IsSome(input) /\ Unwrap(input) = EmptyText) =>
        /\ ~(\E i \in 1..Len(log) : log[i].op = "return_default")
        /\ pc \in {"test_string", "parse_input", "test_proposal", "give_feedback", "done"}
        /\ pc # "test_string" =>
              Len(SelectSeq(Iteration, LAMBDA e : e.op = "str_test")) = Len(str_tests)
        /\ pc \in {"test_proposal", "give_feedback"} =>
              \E i \in 1..Len(Iteration) : Iteration[i].op = "parser"
        /\ result = "Ok" =>
              /\ OpsOf(Iteration)[Len(Iteration)] = "write_feedback"
              /\ value = proposal
        /\ IsSome(attempts0) => attempts = Some(Unwrap(attempts0) - nread)

C3_Witness ==
    /\ required.flag
    /\ input = Some(EmptyText)
    /\ IsSome(default)
    /\ pc = "parse_input"
    /\ attempts0 = Some(2)
    /\ attempts = Some(1)

\* C4: when required is set, empty input is never accepted: no resolution
\* returns Ok on an attempt whose preprocessed text is empty.
C4_RequiredEmptyNeverAccepted ==
    ~(result = "Ok" /\ required.flag /\ IsSome(input) /\ Unwrap(input) = EmptyText)

\* C5: a fault of any read or write makes the resolution return Io at that
\* point: the fault is the last thing that happens.
C5_FaultReturnsIo ==
    (\E i \in 1..Len(log) : log[i].op = "fault") =>
        /\ pc = "done"
        /\ result = "Io"
        /\ log[Len(log)].op = "fault"

\* C6: with a budget of n >= 1 whose n lines are all rejected, exactly n
\* lines are read, the attempts feedback is written n times, for the counts
\* n, n-1, ..., 1 in that order, each before the read (and so the decrement)
\* of its attempt, and the result is NoMoreAttempts.
C6_FeedbackCountsDescend ==
    LET fb == Select("write_attempts_feedback")
        n == Unwrap(attempts0)
        rejectedAll ==
            /\ pc = "done"
            /\ IsSome(attempts0) /\ Unwrap(attempts0) >= 1
            /\ nread = Unwrap(attempts0)
            /\ LastIndex("check_attempts") > LastIndex("read_line")
    IN  /\ rejectedAll => result = "NoMoreAttempts"
        /\ (result = "NoMoreAttempts" /\ Unwrap(attempts0) >= 1) =>
              /\ nread = n
              /\ Len(Select("read_line")) = n
              /\ Len(fb) = n
              /\ \A i \in 1..n :
                    /\ fb[i].n = n - i + 1
                    /\ fb[i].text = attempts_feedback(n - i + 1)
                    /\ NthIndex("write_attempts_feedback", i) < NthIndex("read_line", i)
                    /\ NthIndex("read_line", i) < NthIndex("decrease_attempts", i)
                    /\ i > 1 => NthIndex("decrease_attempts", i - 1)
                                    < NthIndex("write_attempts_feedback", i)

C6_Witness ==
    /\ result = "NoMoreAttempts"
    /\ attempts0 = Some(2)
    /\ nread = 2
    /\ Len(Select("write_attempts_feedback")) = 2

\* C7: a string-validator failure, a parser failure and a value-validator
\* failure are recoverable: the step in which the loop meets one (the timer
\* not firing during it) returns nothing, restarts the loop at the attempts
\* check, and leaves the budget one lower per line read so far.
StrRejected ==
    /\ pc = "test_string"
    /\ \E i \in 1..Len(str_tests) : ~StrTestPasses(str_tests[i], Unwrap(input))
ParseRejected ==
    /\ pc = "parse_input"
    /\ ~RunParser(parser.kind, Unwrap(input)).ok
ValueRejected ==
    /\ pc = "test_proposal"
    /\ \E i \in 1..Len(tests) : ~TestPasses(tests[i], Unwrap(proposal))

C7_FailuresAreRecoverable ==
    [][ ((StrRejected \/ ParseRejected \/ ValueRejected) /\ result' # "Timeout") =>
            /\ pc' = "check_attempts"
            /\ result' = "none"
            /\ attempts' = attempts
            /\ IsSome(attempts0) => attempts' = Some(Unwrap(attempts0) - nread) ]_vars

C7_Witness ==
    /\ pc = "check_attempts"
    /\ nread = 2
    /\ attempts0 = Some(2)
    /\ attempts = Some(0)
    /\ \E i \in 1..Len(log) : log[i].op = "str_test"
    /\ \E i \in 1..Len(log) : log[i].op = "test"
    /\ Len(Select("write_error")) = 2

\* C8: the remaining attempts count stays between 0 and its initial value,
\* never increases, and the decrement is never reached with a count of 0
\* (no panic, no wrap-around).
C8_BudgetOnlyDecreases ==
    /\ [](/\ IsSome(attempts) = IsSome(attempts0)
          /\ IsSome(attempts) => Unwrap(attempts) \in 0..Unwrap(attempts0)
          /\ (pc = "decrease_attempts" /\ IsSome(attempts)) => Unwrap(attempts) >= 1
          /\ result # "Panic")
    /\ [][IsSome(attempts) => Unwrap(attempts') <= Unwrap(attempts)]_vars

C8_Witness ==
    /\ attempts0 = Some(2)
    /\ attempts = Some(0)
    /\ pc = "done"
    /\ result = "Ok"

\* C9: a read that finds the end of the stream makes the resolution return
\* Eof and stop, also with attempts left in the budget; the message and the
\* attempts feedback of that iteration were written before it.
C9_EofAbortsResolution ==
    /\ (\E i \in 1..Len(log) : EndOfStreamRead(log[i])) <=> result = "Eof"
    /\ result = "Eof" =>
          /\ pc = "done"
          /\ value = None
          /\ EndOfStreamRead(log[Len(log)])
          /\ IsSome(attempts) => Unwrap(attempts) >= 1
          /\ OpsOf(Iteration) =
                IF IsSome(attempts)
                THEN <<"write_message", "write_attempts_feedback", "read_line">>
                ELSE <<"write_message", "read_line">>

C9_Witness ==
    /\ result = "Eof"
    /\ attempts0 = Some(2)
    /\ attempts = Some(1)
    /\ nread = 1
    /\ message.repeat

\* C10: a resolution ends in exactly one of Ok(value), Eof, NoMoreAttempts,
\* Timeout and Io; Timeout only with a timeout configured, NoMoreAttempts
\* only with an attempts budget configured.
C10_TerminalStates ==
    /\ pc = "done" <=> result # "none"
    /\ result \in {"none", "Ok", "Eof", "NoMoreAttempts", "Timeout", "Io"}
    /\ result = "Ok" <=> IsSome(value)
    /\ result = "Timeout" => executor = "Timeout"
    /\ result = "NoMoreAttempts" => IsSome(attempts0)

C10_Witness ==
    /\ result = "Timeout"
    /\ attempts0 = None
    /\ nread = MaxInput
    /\ pc = "done"

\* Events of the log that wrote to the writer.
WriteEvents == SelectSeq(log, LAMBDA e : e.op \in WriteOps)

IsPrefix(s, t) == Len(s) <= Len(t) /\ SubSeq(t, 1, Len(s)) = s

\* C11: under a configured timeout, once the timer fires the resolution
\* returns Timeout; nothing is read or written after that, and what was
\* written before stays: the output only ever grows by appending.
C11_TimeoutKeepsOutput ==
    /\ [](HasOp(log, "timeout") =>
            /\ executor = "Timeout"
            /\ log[Len(log)].op = "timeout"
            /\ Cardinality({i \in 1..Len(log) : log[i].op = "timeout"}) = 1
            /\ pc = "done" /\ result = "Timeout")
    /\ [][/\ ~HasOp(log, "timeout")
          /\ IsPrefix(out, out')
          /\ nread' >= nread]_vars

C11_Witness ==
    /\ result = "Timeout"
    /\ nread = 1
    /\ HasOp(log, "write_error")
    /\ ~HasOp(log, "write_help")
    /\ out # <<>>

\* C12: whenever the resolution returns Ok(v), feedback(v) was written, and
\* it was the last write before returning.
C12_FeedbackBeforeEveryOk ==
    result = "Ok" =>
        /\ WriteEvents # <<>>
        /\ WriteEvents[Len(WriteEvents)] =
               Event("write_feedback", 0, feedback(parser.kind, Unwrap(value)))

\* C12 (amended): Ok(v) is returned either by the early return of the
\* default, which writes no feedback at all, or right after feedback(v) was
\* written as the last operation of the resolution.
C12_FeedbackUnlessDefault ==
    result = "Ok" =>
        \/ /\ log[Len(log)].op = "return_default"
           /\ value = default
           /\ ~HasOp(log, "write_feedback")
        \/ /\ log[Len(log)] =
                 Event("write_feedback", 0, feedback(parser.kind, Unwrap(value)))
           /\ \A i \in 1..(Len(log) - 1) :
                 log[i].op \notin {"write_feedback", "return_default"}

C12_Witness ==
    /\ result = "Ok"
    /\ HasOp(log, "write_feedback")
    /\ HasOp(log, "write_help")
    /\ IsSome(default)

\* The events a step appends to the log.
StepEvents == SubSeq(log', Len(log) + 1, Len(log'))

\* The step ran to its end: no I/O fault and no timeout cut it short.
StepCompletes == ~HasOp(StepEvents, "fault") /\ ~HasOp(StepEvents, "timeout")

\* `continue`: back to the attempts check with the locals dropped.
LoopRestarts ==
    pc' = "check_attempts" /\ preinput' = None /\ input' = None /\ proposal' = None

\* Least element of a non-empty set of indexes.
Least(S) == CHOOSE i \in S : \A j \in S : i <= j

\* C13: the string validators run in insertion order on the preprocessed
\* text; at the first one that fails its failure text (when its display flag
\* is set) is written through error_formatter, then help is written; the
\* later string validators, the parser and the value validators are not
\* invoked, and the loop restarts.
C13_FirstStringFailureReports ==
    [][(pc = "test_string" /\ StepCompletes) =>
         LET text == preparser(Unwrap(preinput))
             failing == {i \in 1..Len(str_tests) : ~StrTestPasses(str_tests[i], text)}
             ran == IF failing = {} THEN Len(str_tests) ELSE Least(failing)
             calls == [j \in 1..ran |-> Event("str_test", j, text)]
         IN  IF failing = {}
             THEN StepEvents = calls /\ out' = out /\ pc' = "parse_input"
             ELSE LET entry == str_tests[ran]
                      shown == IF entry.show THEN error_formatter(entry.msg) ELSE EmptyText
                  IN  /\ StepEvents =
                            calls
                            \o (IF entry.show
                                THEN <<Event("write_error", 0, shown)>> ELSE <<>>)
                            \o <<Event("write_help", 0, help.text)>>
                      /\ out' = out \o shown \o help.text
                      /\ LoopRestarts]_vars

C13_Witness ==
    /\ pc = "check_attempts"
    /\ Len(str_tests) = 2
    /\ Len(log) > 3
    /\ LET n == Len(log)
       IN  /\ log[n].op = "write_help" /\ log[n].text = HelpText
           /\ log[n - 1] = Event("write_error", 0, error_formatter(str_tests[1].msg))
           /\ log[n - 2] = Event("str_test", 1, <<"2", "3">>)
           /\ log[n - 3].op = "preparser"

\* C14: the value validators run in insertion order on the parsed value; at
\* the first one that fails its failure text is written through
\* error_formatter, then help; the later validators are not invoked, no
\* feedback is written and the loop restarts. With min 2, not 3, max 4 and
\* the inputs 3 then 2, the not-3 text and help are written, then 2 returned.
C14_FirstValueFailureReports ==
    [][(pc = "test_proposal" /\ StepCompletes) =>
         LET v == Unwrap(proposal)
             failing == {i \in 1..Len(tests) : ~TestPasses(tests[i], v)}
             ran == IF failing = {} THEN Len(tests) ELSE Least(failing)
             calls == [j \in 1..ran |-> Event("test", j, EmptyText)]
         IN  IF failing = {}
             THEN StepEvents = calls /\ out' = out /\ pc' = "give_feedback"
             ELSE LET entry == tests[ran]
                      shown == IF entry.show THEN error_formatter(entry.msg) ELSE EmptyText
                  IN  /\ StepEvents =
                            calls
                            \o (IF entry.show
                                THEN <<Event("write_error", 0, shown)>> ELSE <<>>)
                            \o <<Event("write_help", 0, help.text)>>
                      /\ out' = out \o shown \o help.text
                      /\ ~HasOp(StepEvents, "write_feedback")
                      /\ LoopRestarts]_vars

C14_Witness ==
    /\ parser.kind = "u32"
    /\ result = "Ok" /\ value = Some(2)
    /\ Len(tests) = 3
    /\ out = MessageText \o <<"This value is not allowed.", "\n">> \o HelpText
             \o <<"You chose ", "2", "!">>
    /\ Len(Select("test")) = 2 + 3

\* Position in the step's events of the call of the parser, 0 when not called.
ParserCall ==
    LET idx == {i \in 1..Len(StepEvents) : StepEvents[i].op = "parser"}
    IN  IF idx = {} THEN 0 ELSE Least(idx)

\* C15: when the parser fails, help is written first and then, only with the
\* parser's display flag enabled, the parser's error text through
\* error_formatter; with the flag disabled help is still written and no
\* error text; the loop restarts and no value validator runs.
C15_ParserFailureHelpThenError ==
    [][(/\ pc = "parse_input" /\ StepCompletes
        /\ ~RunParser(parser.kind, Unwrap(input)).ok) =>
         LET after == SubSeq(StepEvents, ParserCall + 1, Len(StepEvents))
             before == SubSeq(StepEvents, 1, ParserCall - 1)
             shown == IF HasOp(before, "write_help") /\ ~help.repeat
                      THEN EmptyText ELSE help.text
             error == error_formatter(RunParser(parser.kind, Unwrap(input)).err)
         IN  /\ ParserCall > 0
             /\ StepEvents[ParserCall].text = preparser(Unwrap(preinput))
             /\ after = <<Event("write_help", 0, shown)>>
                        \o (IF parser.flag
                            THEN <<Event("write_error", 0, error)>> ELSE <<>>)
             /\ out' = out \o Written(before) \o shown
                           \o (IF parser.flag THEN error ELSE EmptyText)
             /\ ~HasOp(StepEvents, "test")
             /\ LoopRestarts]_vars

C15_Witness ==
    /\ pc = "check_attempts"
    /\ parser.flag /\ ~required.flag
    /\ Len(log) > 2
    /\ LET n == Len(log)
       IN  /\ log[n].op = "write_error" /\ log[n].text # EmptyText
           /\ log[n - 1] = Event("write_help", 0, HelpText)
           /\ log[n - 2].op = "parser"

FailureTexts ==
    {str_tests[i].msg : i \in 1..Len(str_tests)}
    \cup {tests[i].msg : i \in 1..Len(tests)}
    \cup {<<"cannot parse integer from empty string">>,
          <<"invalid digit found in string">>}

\* What the configured error formatter makes of a text.
Formatted(text) == IF formatter = "silent" THEN EmptyText ELSE text \o <<"\n">>

\* C17: a validator's failure text, the parser's error text and the
\* required-message reach the output only as error_formatter(text), while
\* the message, help, the attempts feedback and the value feedback are
\* written as they are; with an error_formatter returning the empty text a
\* rejected attempt adds no error text to the output and help is still shown.
C17_ErrorsOnlyThroughFormatter ==
    /\ out = Written(log)
    /\ \A i \in 1..Len(log) :
          LET e == log[i]
          IN  /\ e.op = "write_error" => \E t \in FailureTexts : e.text = Formatted(t)
              /\ e.op = "write_required" => e.text = Formatted(required.msg)
              /\ e.op = "write_message" => e.text \in {MessageText, EmptyText}
              /\ e.op = "write_help" => e.text \in {HelpText, EmptyText}
              /\ e.op = "write_attempts_feedback" => e.text = attempts_feedback(e.n)
              /\ e.op = "write_feedback" =>
                     e.text = feedback(parser.kind, Unwrap(proposal))
    /\ formatter = "silent" =>
          out = Written(SelectSeq(log, LAMBDA e :
                          e.op \in WriteOps \ {"write_error", "write_required"}))

C17_Witness ==
    /\ formatter = "silent"
    /\ pc = "check_attempts"
    /\ nread = 2
    /\ Len(Select("write_error")) = 2
    /\ help.repeat
    /\ out = MessageText \o HelpText \o HelpText

\* C18: a message with repeat false is written on the first iteration only
\* and is the empty text on every later iteration; a message with repeat
\* true is written at the start of every iteration, before that iteration's
\* read. (The first iteration's write is the second event of the history,
\* after the first attempts check.)
C18_MessageRepeat ==
    /\ message.text = IF message.repeat \/ ~HasOp(log, "write_message")
                      THEN MessageText ELSE EmptyText
    /\ \A k \in 1..Len(log) :
          /\ log[k].op = "write_message" =>
                /\ k > 1 /\ log[k - 1].op = "check_attempts"
                /\ log[k].text = IF k = 2 \/ message.repeat
                                 THEN MessageText ELSE EmptyText
          /\ log[k].op = "read_line" =>
                /\ k > 2
                /\ \/ log[k - 1].op = "write_message"
                   \/ /\ log[k - 1].op = "write_attempts_feedback"
                      /\ log[k - 2].op = "write_message"

C18_Witness ==
    /\ ~message.repeat
    /\ nread = 2
    /\ Len(Select("write_message")) = 2
    /\ Select("write_message")[2].text = EmptyText
    /\ result = "Ok"
    /\ IsPrefix(MessageText \o HelpText, out)

\* Number of the iteration the k-th event of the log belongs to.
IterationOf(k) == Cardinality({j \in 1..k : log[j].op = "check_attempts"})

\* Indexes of the events that wrote a non-empty help text.
HelpShown == {k \in 1..Len(log) : log[k].op = "write_help" /\ log[k].text # EmptyText}

\* Iterations that ended with `continue`: each was followed by another one.
Rejected == 1..(Len(Select("check_attempts")) - 1)

\* C19: a help text with repeat false is written at most once in a whole
\* resolution, on the first rejected attempt, and never again; it is written
\* whatever the kind of the rejection.
C19_HelpOnceOnFirstRejection ==
    ~help.repeat =>
        /\ Cardinality(HelpShown) <= 1
        /\ \A k \in HelpShown :
              /\ IterationOf(k) = 1
              /\ \/ 1 \in Rejected
                 \/ pc = "check_attempts"
                 \/ result = "Timeout"
        /\ 1 \in Rejected => HelpShown # {}

\* C20: a help text with repeat_help is displayed every time an attempt
\* fails: each rejected attempt writes the help text once.
C20_HelpOncePerRejection ==
    help.repeat =>
        \A i \in Rejected :
            Cardinality({k \in HelpShown : IterationOf(k) = i}) = 1

\* ------------------------------------------------------------ the builder
\* Bounds of the builder specifications.
MaxLen == 2
MaxTests == 2
MaxCalls == 4

\* Variant: the new entry goes in front of the earlier ones.
str_test_with_feedback_front(ts, entry) == <<entry>> \o ts

\* str_test_with_feedback: the entry is pushed with its display flag set.
str_test_with_feedback(ts, entry) == Append(ts, entry)

LengthEntry(kind, n, msg) == [kind |-> kind, n |-> n, show |-> TRUE, msg |-> msg]

length_with_msg(ts, n, msg) == str_test_with_feedback(ts, LengthEntry("length", n, msg))
max_length_with_msg(ts, n, msg) ==
    str_test_with_feedback(ts, LengthEntry("max_length", n, msg))
min_length_with_msg(ts, n, msg) ==
    str_test_with_feedback(ts, LengthEntry("min_length", n, msg))

\* The three builders with a default text; each one calls length_with_msg.
length(ts, n) ==
    length_with_msg(ts, n, <<"The input needs to have length exactly ", ToString(n), ".">>)
max_length(ts, n) ==
    length_with_msg(ts, n, <<"The input needs to have length at most ", ToString(n), ".">>)
min_length(ts, n) ==
    length_with_msg(ts, n, <<"The input needs to have length at least ", ToString(n), ".">>)

CustomText == <<"Wrong length.">>

LengthBuilders ==
    { "length", "max_length", "min_length",
      "length_with_msg", "max_length_with_msg", "min_length_with_msg" }

\* The str_tests after the call `name`(n) (or `name`(n, CustomText)).
CallLengthBuilder(name, ts, n) ==
    CASE name = "length" -> length(ts, n)
      [] name = "max_length" -> max_length(ts, n)
      [] name = "min_length" -> min_length(ts, n)
      [] name = "length_with_msg" -> length_with_msg(ts, n, CustomText)
      [] name = "max_length_with_msg" -> max_length_with_msg(ts, n, CustomText)
      [] name = "min_length_with_msg" -> min_length_with_msg(ts, n, CustomText)

\* QuestionBuilder::new with the parser of u32; no call of ask yet.
InitNew ==
    /\ StdStreams
    /\ message = [text |-> EmptyText, repeat |-> FALSE]
    /\ help = [text |-> EmptyText, repeat |-> FALSE]
    /\ default = None
    /\ required = [msg |-> EmptyText, flag |-> FALSE]
    /\ parser = [kind |-> "u32", flag |-> FALSE]
    /\ str_tests = <<>>
    /\ tests = <<>>
    /\ executor = "None"
    /\ duration = 0
    /\ formatter = "newline"
    /\ attempts0 = None
    /\ attempts = None
    /\ nread = 0
    /\ out = <<>>
    /\ pc = "build"
    /\ preinput = None /\ input = None /\ proposal = None
    /\ result = "none"
    /\ value = None
    /\ log = <<>>

\* What a builder call leaves alone besides the fields it sets.
NotAsking == UNCHANGED <<nread, out, pc, locals, result, value>>

\* A call of one of the length builders.
AddLengthTest ==
    /\ pc = "build"
    /\ Len(str_tests) < MaxTests
    /\ \E name \in LengthBuilders, n \in 0..MaxLen :
          /\ str_tests' = CallLengthBuilder(name, str_tests, n)
          /\ log' = Append(log, Event(name, n, EmptyText))
    /\ NotAsking
    /\ UNCHANGED <<message, help, default, required, parser, tests, executor,
                   duration, formatter, attempts0, attempts,
                   reader, writer>>

\* Lines of at most MaxLen + 1 letters.
ProbeLines == {[i \in 1..n |-> "a"] \o <<"\n">> : n \in 0..(MaxLen + 1)}

\* The configuration is asked and a line reaches the string validators.
Probe ==
    /\ pc = "build"
    /\ \E line \in ProbeLines :
          /\ preinput' = Some(line)
          /\ input' = Some(preparser(line))
          /\ log' = Append(log, Event("preparser", 0, preparser(line)))
    /\ pc' = "test_string"
    /\ UNCHANGED <<message, help, config, attempts, nread, out, proposal, result, value>>

NextLength == AddLengthTest \/ Probe \/ TestString

SpecLength == InitNew /\ [][NextLength]_vars

\* The line probed, preprocessed, and whether the string validators let it by.
ProbedText == log[LastIndex("preparser")].text
Probed == pc \in {"parse_input", "check_attempts"}
Accepted == pc = "parse_input"

\* C22: the string validator added by max_length(n) accepts a preprocessed
\* input exactly when its length is at most n, that is, it accepts the same
\* inputs as the one added by max_length_with_msg(n, _).
C22_MaxLengthAccepts ==
    (Probed /\ Len(str_tests) = 1 /\ log[1].op = "max_length") =>
        /\ Accepted <=> Len(ProbedText) <= log[1].n
        /\ Accepted <=>
              FirstStrFail(max_length_with_msg(<<>>, log[1].n, CustomText), ProbedText) = 0

\* C23: the string validator added by min_length(n) accepts a preprocessed
\* input exactly when its length is at least n, that is, it accepts the same
\* inputs as the one added by min_length_with_msg(n, _).
C23_MinLengthAccepts ==
    (Probed /\ Len(str_tests) = 1 /\ log[1].op = "min_length") =>
        /\ Accepted <=> Len(ProbedText) >= log[1].n
        /\ Accepted <=>
              FirstStrFail(min_length_with_msg(<<>>, log[1].n, CustomText), ProbedText) = 0

\* ------------------------------------------------- the builder's setters
TextA == <<"A">>
TextB == <<"B">>

message_call(text) == [text |-> text, repeat |-> FALSE]
repeat_message_call(text) == [text |-> text, repeat |-> TRUE]
help_call(text) == [text |-> text, repeat |-> FALSE]
repeat_help_call(text) == [text |-> text, repeat |-> TRUE]
required_call(req) == [msg |-> req.msg, flag |-> TRUE]
required_with_msg_call(text) == [msg |-> text, flag |-> TRUE]
required_toogle_call(req) == [msg |-> req.msg, flag |-> ~req.flag]
test_with_feedback(ts, entry) == Append(ts, entry)
min_with_msg(ts, bound, msg) ==
    test_with_feedback(ts, [kind |-> "min", bound |-> bound, show |-> TRUE, msg |-> msg])
not_with_msg(ts, bound, msg) ==
    test_with_feedback(ts, [kind |-> "not", bound |-> bound, show |-> TRUE, msg |-> msg])
clear_call(ts) == <<>>

\* A builder call is recorded with its name and its argument.
Called(name, n, text) ==
    /\ pc = "build"
    /\ Len(log) < MaxCalls
    /\ log' = Append(log, Event(name, n, text))
    /\ NotAsking

SetMessage ==
    /\ \/ Called("message", 0, TextA) /\ message' = message_call(TextA)
       \/ Called("repeat_message", 0, TextB) /\ message' = repeat_message_call(TextB)
    /\ UNCHANGED <<help, config, attempts>>

SetHelp ==
    /\ \/ Called("help", 0, TextA) /\ help' = help_call(TextA)
       \/ Called("repeat_help", 0, TextB) /\ help' = repeat_help_call(TextB)
    /\ UNCHANGED <<message, config, attempts>>

\* default_value(2) and default_value(None).
SetDefault ==
    /\ \/ Called("default_value", 2, <<"Some">>) /\ default' = Some(2)
       \/ Called("default_value", 0, <<"None">>) /\ default' = None
    /\ UNCHANGED <<message, help, required, parser, str_tests, tests, executor,
                   duration, formatter, attempts0, attempts,
                   reader, writer>>

SetRequired ==
    /\ \/ Called("required", 0, EmptyText) /\ required' = required_call(required)
       \/ Called("required_with_msg", 0, TextA) /\ required' = required_with_msg_call(TextA)
       \/ Called("required_toogle", 0, EmptyText)
          /\ required' = required_toogle_call(required)
    /\ UNCHANGED <<message, help, default, parser, str_tests, tests, executor,
                   duration, formatter, attempts0, attempts,
                   reader, writer>>

SetTimeout ==
    /\ \E d \in 1..2 :
          /\ Called("timeout", d, EmptyText)
          /\ executor' = "Timeout"
          /\ duration' = d
    /\ UNCHANGED <<message, help, default, required, parser, str_tests, tests,
                   formatter, attempts0, attempts,
                   reader, writer>>

AddStrTest ==
    /\ \/ Called("length", 1, EmptyText) /\ str_tests' = length(str_tests, 1)
       \/ Called("max_length_with_msg", 1, CustomText)
          /\ str_tests' = max_length_with_msg(str_tests, 1, CustomText)
    /\ UNCHANGED <<message, help, default, required, parser, tests, executor,
                   duration, formatter, attempts0, attempts,
                   reader, writer>>

AddTest ==
    /\ \/ Called("min_with_msg", 2, TextA) /\ tests' = min_with_msg(tests, 2, TextA)
       \/ Called("not_with_msg", 3, TextB) /\ tests' = not_with_msg(tests, 3, TextB)
    /\ UNCHANGED <<message, help, default, required, parser, str_tests, executor,
                   duration, formatter, attempts0, attempts,
                   reader, writer>>

Clear ==
    /\ Called("clear", 0, EmptyText)
    /\ tests' = clear_call(tests)
    /\ UNCHANGED <<message, help, default, required, parser, str_tests, executor,
                   duration, formatter, attempts0, attempts,
                   reader, writer>>

NextBuilder ==
    \/ SetMessage
    \/ SetHelp
    \/ SetDefault
    \/ SetRequired
    \/ SetTimeout
    \/ AddStrTest
    \/ AddTest
    \/ Clear

SpecBuilder == InitNew /\ [][NextBuilder]_vars

\* The builder call a step records.
LastCall == log'[Len(log')]

\* Every scalar field is what the call just made gave it, whatever it held
\* before, and is left alone by the calls that do not set it (required and
\* required_toogle set the flag of required and keep its text).
ScalarsFollowCall ==
    LET c == LastCall
    IN  /\ message' = CASE c.op = "message" -> [text |-> c.text, repeat |-> FALSE]
                         [] c.op = "repeat_message" -> [text |-> c.text, repeat |-> TRUE]
                         [] OTHER -> message
        /\ help' = CASE c.op = "help" -> [text |-> c.text, repeat |-> FALSE]
                      [] c.op = "repeat_help" -> [text |-> c.text, repeat |-> TRUE]
                      [] OTHER -> help
        /\ default' = IF c.op = "default_value"
                      THEN (IF c.text = <<"Some">> THEN Some(c.n) ELSE None)
                      ELSE default
        /\ <<executor', duration'>> =
               IF c.op = "timeout" THEN <<"Timeout", c.n>> ELSE <<executor, duration>>
        /\ required' =
               CASE c.op = "required_with_msg" -> [msg |-> c.text, flag |-> TRUE]
                 [] c.op = "required" -> [msg |-> required.msg, flag |-> TRUE]
                 [] c.op = "required_toogle" -> [msg |-> required.msg, flag |-> ~required.flag]
                 [] OTHER -> required

\* C21: for every sequence of builder calls the scalar fields (message,
\* help, default, timeout, required) hold only the value of the last call
\* that set them, and the lists of string validators and of value validators
\* are append-only: each call leaves the earlier entries in place and in
\* order, and no builder call makes a list shorter.
C21_OverwriteAndAppendOnly ==
    [][/\ ScalarsFollowCall
       /\ IsPrefix(str_tests, str_tests')
       /\ IsPrefix(tests, tests')]_vars

\* C21 (amended): the same, except that clear() empties the list of value
\* validators (and leaves the string validators as they are); every other
\* call leaves the earlier entries of both lists in place and in order.
C21_OverwriteAndAppendUnlessClear ==
    [][/\ ScalarsFollowCall
       /\ IsPrefix(str_tests, str_tests')
       /\ Len(str_tests') =
             Len(str_tests)
             + (IF LastCall.op \in {"length", "max_length_with_msg"} THEN 1 ELSE 0)
       /\ IF LastCall.op = "clear"
          THEN tests' = <<>>
          ELSE /\ IsPrefix(tests, tests')
               /\ Len(tests') =
                     Len(tests)
                     + (IF LastCall.op \in {"min_with_msg", "not_with_msg"} THEN 1 ELSE 0)
      ]_vars

C21_Witness ==
    /\ OpsOf(log) = <<"message", "repeat_message", "min_with_msg", "not_with_msg">>
    /\ message = [text |-> TextB, repeat |-> TRUE]
    /\ Len(tests) = 2
    /\ tests[1].kind = "min" /\ tests[2].kind = "not"

\* The text spells one of the words, in whatever mix of cases.
Spells(text, words) ==
    \E w \in words :
        /\ Len(text) = Len(w)
        /\ \A i \in 1..Len(w) : text[i] \in {w[i], Uppercase(w[i])}

\* C25: the yes/no parser maps, whatever the case of the letters, exactly
\* "y", "yes", "t", "true" to true and "n", "no", "f", "false" to false, and
\* fails on every other text; so with the message "Continue? " and the input
\* "YES" the output is the message followed by feedback(true) and the result
\* is Ok(true).
C25_YesNoParser ==
    /\ [][(pc = "parse_input" /\ StepCompletes) =>
            LET text == Unwrap(input)
            IN  IF Spells(text, TrueWords)
                THEN pc' = "test_proposal" /\ proposal' = Some(TRUE)
                ELSE IF Spells(text, FalseWords)
                THEN pc' = "test_proposal" /\ proposal' = Some(FALSE)
                ELSE LoopRestarts]_vars
    /\ []((/\ result = "Ok" /\ attempts0 = None /\ nread = 1
           /\ log[LastIndex("read_line")].text = <<"Y", "E", "S">>) =>
             /\ value = Some(TRUE)
             /\ out = MessageYn \o feedback("bool", TRUE))

C25_Witness ==
    /\ parser.kind = "bool"
    /\ result = "Ok" /\ value = Some(TRUE)
    /\ nread = 1
    /\ HasOp(log, "read_line")
    /\ log[LastIndex("read_line")].text = <<"Y", "E", "S">>
    /\ out = <<"Continue? ", "You chose ", "true", "!">>

\* The first line read, and what the parser makes of its preprocessed text.
FirstLine == log[Least({i \in 1..Len(log) : log[i].op = "read_line"})].text
FirstParsed == RunParser(parser.kind, preparser(FirstLine))

\* The resolution ended and no I/O fault or timeout cut it short.
RanToEnd == pc = "done" /\ ~HasOp(log, "fault") /\ ~HasOp(log, "timeout")

\* What a resolution that accepts its first line leaves behind: the message,
\* the attempts feedback when there is a budget, the feedback of the value.
RoundTrip(v) ==
    /\ result = "Ok" /\ value = Some(v)
    /\ nread = 1
    /\ Len(Select("read_line")) = 1
    /\ Len(Select("decrease_attempts")) = 1
    /\ attempts = (IF IsSome(attempts0) THEN Some(Unwrap(attempts0) - 1) ELSE None)
    /\ OpsOf(WriteEvents) =
          <<"write_message">>
          \o (IF IsSome(attempts0) THEN <<"write_attempts_feedback">> ELSE <<>>)
          \o <<"write_feedback">>
    /\ out = MessageText
             \o (IF IsSome(attempts0) THEN attempts_feedback(Unwrap(attempts0)) ELSE <<>>)
             \o feedback(parser.kind, v)
    /\ LastIndex("write_message") < LastIndex("read_line")
    /\ LastIndex("read_line") < LastIndex("write_feedback")

AtSuspension ==
    \/ pc \in {"write_message", "take_input", "give_feedback"}
    \/ pc = "write_attempts_feedback" /\ IsSome(attempts)

\* C26: the timeout bounds the whole execution, retries and the writing of
\* the feedback included: the timer can fire at every suspension point up to
\* the last write of the feedback, so a run that has read a valid line can
\* still end in Timeout; a run whose loop reached a terminal state before
\* the timer fired keeps the loop's own result and never becomes Timeout.
C26_TimeoutBoundsWholeRun ==
    /\ []((executor = "Timeout" /\ AtSuspension) => ENABLED TimeoutFires)
    /\ [][result # "none" => result' = result]_vars
    /\ [][result' = "Timeout" =>
            /\ result = "none" /\ pc # "done"
            /\ executor = "Timeout"
            /\ ~HasOp(StepEvents, "write_feedback")
            /\ ~HasOp(StepEvents, "read_line")]_vars

C26_Witness ==
    /\ result = "Timeout"
    /\ parser.kind = "u32"
    /\ proposal = Some(2)
    /\ Len(tests) = 3
    /\ nread = 2
    /\ log[Len(log) - 1] = Event("test", 3, EmptyText)
    /\ ~HasOp(log, "write_feedback")

\* C27: NoMoreAttempts is returned only when the budget was used up before a
\* valid answer: with a budget of n >= 1 a line accepted on the n-th attempt,
\* which brings the count to 0, yields Ok, and NoMoreAttempts is returned
\* only after exactly n lines were read and every one of them rejected.
C27_NoMoreAttemptsOnlyWhenExhausted ==
    /\ [][(pc = "give_feedback" /\ attempts = Some(0) /\ StepCompletes) =>
            /\ nread = Unwrap(attempts0)
            /\ result' = "Ok" /\ value' = proposal]_vars
    /\ [](result = "NoMoreAttempts" =>
            /\ IsSome(attempts0)
            /\ attempts = Some(0)
            /\ nread = Unwrap(attempts0)
            /\ log[Len(log)].op = "check_attempts"
            /\ Cardinality({i \in 1..Len(log) : log[i].op = "check_attempts"})
                  = Unwrap(attempts0) + 1
            /\ Cardinality({i \in 1..Len(log) : log[i].op = "read_line"})
                  = Unwrap(attempts0)
            /\ \A i \in 1..Len(log) : log[i].op \notin {"write_feedback", "return_default"})

C27_Witness ==
    /\ attempts0 = Some(2)
    /\ attempts = Some(0)
    /\ nread = 2
    /\ result = "Ok"
    /\ HasOp(log, "write_help")

\* C28: every value returned other than by the early return of the default
\* equals parser(preparser(line)) for the last line read, that preprocessed
\* text passed every string validator and the value passed every value
\* validator; a value returned by the early return of the default is the
\* default as configured, whether or not it passes the value validators.
C28_ReturnedValueIsValidated ==
    [](result = "Ok" =>
          IF log[Len(log)].op = "return_default"
          THEN value = default
          ELSE LET text == preparser(log[LastIndex("read_line")].text)
                   parsed == RunParser(parser.kind, text)
               IN  /\ parsed.ok
                   /\ value = parsed.val
                   /\ \A i \in 1..Len(str_tests) : StrTestPasses(str_tests[i], text)
                   /\ \A i \in 1..Len(tests) : TestPasses(tests[i], Unwrap(value)))

C28_Witness ==
    /\ parser.kind = "u32"
    /\ result = "Ok" /\ value = Some(2)
    /\ Len(str_tests) = 2 /\ Len(tests) = 3
    /\ nread = 2
    /\ IsSome(default) /\ ~TestPasses(tests[2], Unwrap(default))
    /\ log[Len(log)].op = "write_feedback"

\* C29: the attempts feedback is never invoked with 0: for a budget of n it
\* is invoked only with values in 1..n, each value at most once and in
\* strictly decreasing order.
C29_AttemptsFeedbackArguments ==
    [](LET shown == {i \in 1..Len(log) : log[i].op = "write_attempts_feedback"}
       IN  /\ shown # {} => IsSome(attempts0)
           /\ \A i \in shown :
                 /\ log[i].n \in 1..Unwrap(attempts0)
                 /\ \A j \in shown : i < j => log[i].n > log[j].n)

C29_Witness ==
    /\ attempts0 = Some(2)
    /\ result = "NoMoreAttempts"
    /\ Len(Select("write_attempts_feedback")) = 2
    /\ Select("write_attempts_feedback")[1].n = 2
    /\ Select("write_attempts_feedback")[2].n = 1

\* The operations that may come right after an operation of the same run.
\* Error, help and required writes belong to the validation and parse steps.
MayFollow(a, b) ==
    CASE a = "check_attempts" -> b = "write_message"
      [] a = "write_message" -> b \in {"write_attempts_feedback", "read_line"}
      [] a = "write_attempts_feedback" -> b = "read_line"
      [] a = "read_line" -> b = "decrease_attempts"
      [] a = "decrease_attempts" -> b = "preparser"
      [] a = "preparser" -> b \in {"return_default", "str_test", "write_help", "parser"}
      [] a = "str_test" -> b \in {"str_test", "write_error", "write_help", "parser"}
      [] a = "write_required" -> b = "parser"
      [] a = "parser" -> b \in {"write_help", "test", "write_feedback"}
      [] a = "test" -> b \in {"test", "write_error", "write_help", "write_feedback"}
      [] a = "write_error" -> b \in {"write_help", "check_attempts"}
      [] a = "write_help" -> b \in {"write_error", "write_required", "check_attempts"}
      [] a = "fault" -> b = "check_attempts"
      [] OTHER -> FALSE

\* C30: within one iteration the steps come in the fixed order: attempts
\* check, message, attempts feedback, read, decrement, preprocessing, early
\* return of the default, string validation, parse, value validation,
\* feedback; so the message and the attempts feedback of an iteration are
\* written before its read, and its error and help texts after its read and
\* before the message of the next iteration. (A fault or the timeout may end
\* a step anywhere.)
C30_StepOrder ==
    [](/\ log # <<>> => log[1].op = "check_attempts"
       /\ \A k \in 1..(Len(log) - 1) :
             \/ log[k + 1].op \in {"fault", "timeout"}
             \/ MayFollow(log[k].op, log[k + 1].op))

C30_Witness ==
    /\ result = "Ok"
    /\ attempts0 = Some(2)
    /\ Len(str_tests) = 2 /\ Len(tests) = 3
    /\ OpsOf(log) =
          << "check_attempts", "write_message", "write_attempts_feedback", "read_line",
             "decrease_attempts", "preparser", "str_test", "str_test", "parser",
             "test", "test", "write_error", "write_help",
             "check_attempts", "write_message", "write_attempts_feedback", "read_line",
             "decrease_attempts", "preparser", "str_test", "str_test", "parser",
             "test", "test", "test", "write_feedback" >>

\* --------------------------------------------------------------- liveness
\* No operation of the reader or of the writer blocks forever: whenever the
\* loop (or the timer) can take a step, one is eventually taken.
InitFair ==
    /\ parser = [kind |-> "u32", flag |-> TRUE]
    /\ default \in Defaults("u32")
    /\ tests \in TestLists("u32")
    /\ message = [text |-> MessageText, repeat |-> TRUE]
    /\ help = [text |-> HelpText, repeat |-> FALSE]
    /\ required \in [msg : {RequiredText}, flag : BOOLEAN]
    /\ str_tests = <<>>
    /\ executor \in {"None", "Timeout"}
    /\ duration = (IF executor = "Timeout" THEN 1 ELSE 0)
    /\ formatter = "newline"
    /\ attempts0 \in {None} \cup {Some(n) : n \in 0..MaxAttempts}
    /\ Start

SpecFair == InitFair /\ [][Next]_vars /\ WF_vars(Next)

\* The calls of read_line made so far, the one that found the end of the
\* stream included.
Reads == Cardinality({k \in 1..Len(log) : log[k].op = "read_line"})

\* C31: with an attempts budget of n and no I/O operation blocking forever
\* the resolution always reaches a terminal state, after at most n reads of
\* a line; with a finite input stream it always reaches a terminal state
\* (Eof at the latest), also when the attempts are unlimited.
C31_Terminates ==
    /\ [](IsSome(attempts0) => Reads <= Unwrap(attempts0))
    /\ [](Reads <= MaxInput + 1)
    /\ [](Reads = MaxInput + 1 => pc = "done" /\ result \in {"Eof", "Timeout"})
    /\ <>(pc = "done")

C31_Witness ==
    /\ pc = "done"
    /\ attempts0 = Some(1)
    /\ result = "NoMoreAttempts"
    /\ Reads = 1
    /\ nread = 1


\* A step that performs no read and no write runs to its end without
\* suspending.
Proceed == NumIo(StepOps(pc)) = 0 /\ Next

\* A read or a write may stay pending forever (the input never delivers a
\* line); the code between two of them runs on, and a timer that can fire
\* eventually does.
SpecTimer ==
    InitFair /\ [][Next]_vars /\ WF_vars(Proceed) /\ WF_vars(TimeoutFires)

WroteNow(op) ==
    \E k \in (Len(log) + 1)..Len(log') : log'[k].op = op

NoText == [text |-> EmptyText, repeat |-> FALSE]

\* C33: during a resolution the only fields of the configuration that change
\* are the message (cleared by the step that displays it, when it is not
\* repeating), the help text (the same) and the count of attempts left (one
\* less, at the decrement); the default, required and its message, both lists
\* of validators, the parser and its display flag, the error formatter (and
\* the preprocessor and the feedback, which are fixed functions here), the
\* timeout and the budget are left unchanged by every step.
C33_ResolutionFrame ==
    [][/\ UNCHANGED <<default, required, str_tests, tests, parser, formatter>>
       /\ UNCHANGED <<executor, duration, attempts0>>
       /\ message' # message =>
             ~message.repeat /\ message' = NoText /\ WroteNow("write_message")
       /\ help' # help =>
             ~help.repeat /\ help' = NoText /\ WroteNow("write_help")
       /\ attempts' # attempts =>
             /\ pc = "decrease_attempts"
             /\ IsSome(attempts)
             /\ attempts' = Some(Unwrap(attempts) - 1)
      ]_vars

\* Message and help were displayed once and cleared, one attempt was used,
\* and the loop is running on.
C33_Witness ==
    /\ pc = "write_message"
    /\ message = NoText
    /\ help = NoText
    /\ attempts0 = Some(MaxAttempts)
    /\ attempts = Some(MaxAttempts - 1)
    /\ IsSome(default)
    /\ required.flag
    /\ Len(str_tests) > 0
    /\ Len(tests) > 0


\* ------------------------------------------- streams, parser and toggles
\* The streams a configuration may be given: those of the process, or a
\* file to read from and a file to write to (examples/file).
Readers == {"stdin", "file_in"}
Writers == {"stdout", "file_out"}

\* The configuration as one value (preparser and feedback are the fixed
\* functions preparser and feedback of this module).
Builder ==
    [ reader |-> reader, writer |-> writer, message |-> message, help |-> help,
      default |-> default, str_tests |-> str_tests, parser |-> parser,
      tests |-> tests, error_formatter |-> formatter,
      executor |-> <<executor, duration>>, attempts |-> attempts0,
      required |-> required ]

\* Variant: the configuration is built anew around the two streams.
reader_call_anew(q, other_reader) ==
    [ reader |-> other_reader, writer |-> q.writer,
      message |-> [text |-> EmptyText, repeat |-> FALSE],
      help |-> [text |-> EmptyText, repeat |-> FALSE],
      default |-> None, str_tests |-> <<>>, parser |-> q.parser, tests |-> <<>>,
      error_formatter |-> "newline", executor |-> <<"None", 0>>,
      attempts |-> None, required |-> [msg |-> EmptyText, flag |-> FALSE] ]

reader_call(q, other_reader) ==
    [ reader |-> other_reader, writer |-> q.writer, message |-> q.message,
      help |-> q.help, default |-> q.default, str_tests |-> q.str_tests,
      parser |-> q.parser, tests |-> q.tests,
      error_formatter |-> q.error_formatter, executor |-> q.executor,
      attempts |-> q.attempts, required |-> q.required ]

writer_call(q, other_writer) ==
    [ reader |-> q.reader, writer |-> other_writer, message |-> q.message,
      help |-> q.help, default |-> q.default, str_tests |-> q.str_tests,
      parser |-> q.parser, tests |-> q.tests,
      error_formatter |-> q.error_formatter, executor |-> q.executor,
      attempts |-> q.attempts, required |-> q.required ]

\* The configuration q takes the place of the current one.
Becomes(q) ==
    /\ reader' = q.reader /\ writer' = q.writer
    /\ message' = q.message /\ help' = q.help
    /\ default' = q.default /\ str_tests' = q.str_tests
    /\ parser' = q.parser /\ tests' = q.tests
    /\ formatter' = q.error_formatter
    /\ executor' = q.executor[1] /\ duration' = q.executor[2]
    /\ attempts0' = q.attempts /\ attempts' = q.attempts
    /\ required' = q.required

SetReader ==
    \E r \in Readers :
        /\ Called("reader", 0, <<r>>)
        /\ Becomes(reader_call(Builder, r))

SetWriter ==
    \E w \in Writers :
        /\ Called("writer", 0, <<w>>)
        /\ Becomes(writer_call(Builder, w))

\* Variant: the display flag is kept as it was.
parser_call_keeping(p, f) == [kind |-> f, flag |-> p.flag]

parser_call(p, f) == [kind |-> f, flag |-> FALSE]
parser_with_feedback_call(p, f) == [kind |-> f, flag |-> TRUE]
parser_feedback_toggle_call(p) == [kind |-> p.kind, flag |-> ~p.flag]

\* The parsers of bool: the one of pattern::yn and the one of FromStr.
BoolParsers == {"bool", "bool_from_str"}

SetParser ==
    /\ \E f \in BoolParsers :
          \/ Called("parser", 0, <<f>>) /\ parser' = parser_call(parser, f)
          \/ Called("parser_with_feedback", 0, <<f>>)
             /\ parser' = parser_with_feedback_call(parser, f)
    /\ UNCHANGED <<message, help, default, required, str_tests, tests, executor,
                   duration, formatter, attempts0, attempts, reader, writer>>

ToggleParserFeedback ==
    /\ Called("parser_feedback_toggle", 0, EmptyText)
    /\ parser' = parser_feedback_toggle_call(parser)
    /\ UNCHANGED <<message, help, default, required, str_tests, tests, executor,
                   duration, formatter, attempts0, attempts, reader, writer>>

\* asking::yn() given a message, a help text, a default, validators and a
\* timeout, before ask is called.
InitAdvanced ==
    /\ StdStreams
    /\ parser = [kind |-> "bool", flag |-> FALSE]
    /\ default = Some(TRUE)
    /\ tests = not_with_msg(<<>>, FALSE, TextB)
    /\ message = [text |-> MessageYn, repeat |-> FALSE]
    /\ help = [text |-> HelpText, repeat |-> TRUE]
    /\ required = [msg |-> RequiredText, flag |-> TRUE]
    /\ str_tests = max_length_with_msg(<<>>, 1, CustomText)
    /\ executor = "Timeout"
    /\ duration = 1
    /\ formatter = "newline"
    /\ attempts0 \in {None, Some(MaxAttempts)}
    /\ attempts = attempts0
    /\ nread = 0
    /\ out = <<>>
    /\ pc = "build"
    /\ preinput = None /\ input = None /\ proposal = None
    /\ result = "none"
    /\ value = None
    /\ log = <<>>

NextAdvanced ==
    \/ SetReader
    \/ SetWriter
    \/ SetParser
    \/ ToggleParserFeedback
    \/ SetRequired

SpecAdvanced == InitAdvanced /\ [][NextAdvanced]_vars

\* C34: substituting the input stream or the output stream (reader, writer)
\* gives a configuration in which only that stream differs: message, help,
\* default, both lists of validators, the parser and its flag, the error
\* formatter, the timeout, the attempts budget and required are unchanged,
\* and the other stream is kept.
C34_StreamSubstitution ==
    [][LastCall.op \in {"reader", "writer"} =>
          /\ UNCHANGED <<message, help, default, str_tests, tests, parser, formatter,
                         executor, duration, attempts0, attempts, required>>
          /\ IF LastCall.op = "reader"
             THEN reader' = LastCall.text[1] /\ writer' = writer
             ELSE writer' = LastCall.text[1] /\ reader' = reader
      ]_vars

\* Both streams were substituted in a configuration whose fields are away
\* from the values of new.
C34_Witness ==
    /\ reader = "file_in"
    /\ writer = "file_out"
    /\ OpsOf(log) = <<"parser_with_feedback", "required_toogle", "reader", "writer">>
    /\ parser = [kind |-> "bool_from_str", flag |-> TRUE]
    /\ required = [msg |-> RequiredText, flag |-> FALSE]
    /\ attempts0 = Some(MaxAttempts)
    /\ executor = "Timeout"
    /\ Len(str_tests) = 1 /\ Len(tests) = 1


\* What the calls on required and on the parser leave alone.
OthersKept(own) ==
    /\ UNCHANGED <<reader, writer, message, help, default, str_tests, tests,
                   formatter, executor, duration, attempts0, attempts>>
    /\ own = "required" => parser' = parser
    /\ own = "parser" => required' = required

\* C37: required_toogle and parser_feedback_toggle are involutions that touch
\* only their own flag: applying either twice gives back the original
\* configuration, required_toogle keeps the message of required and
\* parser_feedback_toggle keeps the parser; parser() always sets the display
\* flag of the parser to off and parser_with_feedback() always sets it to
\* on, whatever it was before.
C37_TogglesAndParserFlag ==
    [][LET c == LastCall
       IN  /\ c.op = "required_toogle" =>
                 /\ required'.flag = ~required.flag
                 /\ required'.msg = required.msg
                 /\ required_toogle_call(required') = required
                 /\ OthersKept("required")
           /\ c.op = "parser_feedback_toggle" =>
                 /\ parser'.flag = ~parser.flag
                 /\ parser'.kind = parser.kind
                 /\ parser_feedback_toggle_call(parser') = parser
                 /\ OthersKept("parser")
           /\ c.op = "parser" =>
                 /\ parser' = [kind |-> c.text[1], flag |-> FALSE]
                 /\ OthersKept("parser")
           /\ c.op = "parser_with_feedback" =>
                 /\ parser' = [kind |-> c.text[1], flag |-> TRUE]
                 /\ OthersKept("parser")
      ]_vars

\* parser() after parser_with_feedback() turned the flag off again, and two
\* calls of parser_feedback_toggle gave back what parser() had set.
C37_Witness ==
    /\ OpsOf(log) = <<"parser_with_feedback", "parser", "parser_feedback_toggle",
                      "parser_feedback_toggle">>
    /\ log[1].text = <<"bool">>
    /\ log[2].text = <<"bool_from_str">>
    /\ parser = [kind |-> "bool_from_str", flag |-> FALSE]
    /\ required = [msg |-> RequiredText, flag |-> TRUE]


\* ---------------------------------------------------------------- min_max
max_with_msg(ts, bound, msg) ==
    test_with_feedback(ts, [kind |-> "max", bound |-> bound, show |-> TRUE, msg |-> msg])

TooSmallText == <<"The value can not be so small.">>
TooBigText == <<"The value can not be so big.">>

\* Variant: the upper bound is tested first.
min_max_upper_first(ts, lower_bound, upper_bound) ==
    min_with_msg(max_with_msg(ts, upper_bound, TooBigText), lower_bound, TooSmallText)

min_max(ts, lower_bound, upper_bound) ==
    max_with_msg(min_with_msg(ts, lower_bound, TooSmallText), upper_bound, TooBigText)

\* The bounds tried, crossed ones (lower above upper) included.
GuessBounds == 2..4

GuessMessage == <<"Please input your guess: ">>
GuessHelp == <<"The secret number is an integer between the bounds.", "\n">>

\* asking::question() with repeat_message and help, as in the guessing game,
\* before min_max and ask are called.
InitGuess ==
    /\ StdStreams
    /\ message = repeat_message_call(GuessMessage)
    /\ help = help_call(GuessHelp)
    /\ default = None
    /\ required = [msg |-> EmptyText, flag |-> FALSE]
    /\ parser = [kind |-> "u32", flag |-> FALSE]
    /\ str_tests = <<>>
    /\ tests = <<>>
    /\ executor = "None"
    /\ duration = 0
    /\ formatter = "newline"
    /\ attempts0 = None
    /\ attempts = None
    /\ nread = 0
    /\ out = <<>>
    /\ pc = "build"
    /\ preinput = None /\ input = None /\ proposal = None
    /\ result = "none"
    /\ value = None
    /\ log = <<>>

\* min_max(lo, hi), called once; the call is recorded with its two bounds.
AddMinMax ==
    /\ tests = <<>>
    /\ \E lo \in GuessBounds, hi \in GuessBounds :
          /\ Called("min_max", lo, <<ToString(hi)>>)
          /\ tests' = min_max(tests, lo, hi)
    /\ UNCHANGED <<message, help, default, required, parser, str_tests, executor,
                   duration, formatter, attempts0, attempts, reader, writer>>

\* ask is called on the configuration built.
Ask ==
    /\ pc = "build"
    /\ tests # <<>>
    /\ pc' = "check_attempts"
    /\ UNCHANGED <<message, help, config, attempts, nread, out, locals, result,
                   value, log>>

\* No timeout is configured: the steps of the loop only.
NextGuess ==
    \/ AddMinMax
    \/ Ask
    \/ CheckAttempts
    \/ WriteMessage
    \/ WriteAttemptsFeedback
    \/ TakeInput
    \/ DecreaseAttempts
    \/ Preparse
    \/ TestString
    \/ ParseInput
    \/ TestProposal
    \/ GiveFeedback

SpecGuess == InitGuess /\ [][NextGuess]_vars

\* C35: min_max(lo, hi) adds two validators, the lower bound first and the
\* upper bound second, and makes the resolution accept a parsed value v
\* exactly when lo <= v <= hi, borders included; a value below lo is
\* rejected with the too-small text, and one above hi (and not below lo,
\* which crossed bounds allow) with the too-big text, each through the error
\* formatter and followed by help.
C35_MinMaxAccepts ==
    [][/\ (pc = "build" /\ pc' = "build" /\ LastCall.op = "min_max") =>
             /\ Len(tests') = Len(tests) + 2
             /\ IsPrefix(tests, tests')
             /\ LET lower == tests'[Len(tests) + 1]
                    upper == tests'[Len(tests) + 2]
                IN  /\ lower.kind = "min" /\ lower.bound = LastCall.n
                    /\ lower.msg = TooSmallText /\ lower.show
                    /\ upper.kind = "max" /\ <<ToString(upper.bound)>> = LastCall.text
                    /\ upper.msg = TooBigText /\ upper.show
       /\ (pc = "test_proposal" /\ Len(tests) = 2) =>
             LET v == Unwrap(proposal)
                 lo == tests[1].bound
                 hi == tests[2].bound
             IN  /\ pc' = "give_feedback" <=> (lo <= v /\ v <= hi)
                 /\ (StepCompletes /\ v < lo) =>
                       out' = out \o error_formatter(TooSmallText) \o help.text
                 /\ (StepCompletes /\ v >= lo /\ v > hi) =>
                       out' = out \o error_formatter(TooBigText) \o help.text
                 /\ ~(lo <= v /\ v <= hi) => LoopRestarts
      ]_vars

\* min_max(3, 3): 2 was rejected as too small, 23 as too big, each once.
C35_Witness ==
    /\ pc = "check_attempts"
    /\ log[1] = Event("min_max", 3, <<"3">>)
    /\ nread = 2
    /\ out = GuessMessage \o error_formatter(TooSmallText) \o GuessHelp
             \o GuessMessage \o error_formatter(TooBigText)


\* ------------------------------------------------ whitespace in the lines
\* Lines with whitespace before, inside and after their text, with and
\* without a terminator, and lines of whitespace only.
WhitespaceLines ==
    { <<"\n">>, <<" ", "\n">>, <<"\t", " ", "\r", "\n">>, <<" ">>,
      <<"2", " ", "\r", "\n">>, <<" ", "2", "\n">>, <<"2", " ", "3", "\n">>, <<"2">> }

TakeWhitespaceLine ==
    TakeInputFrom(IF nread < MaxInput THEN WhitespaceLines \cup {EmptyText}
                  ELSE {EmptyText})

\* Configurations of new with the default preparser and error formatter,
\* with or without a default, required or not.
InitTrim ==
    /\ \E kind \in {"u32", "String"} :
          /\ parser = [kind |-> kind, flag |-> kind = "u32"]
          /\ default \in Defaults(kind)
          /\ tests \in TestLists(kind)
    /\ message = [text |-> MessageText, repeat |-> FALSE]
    /\ help = [text |-> HelpText, repeat |-> FALSE]
    /\ required \in [msg : {RequiredText}, flag : BOOLEAN]
    /\ str_tests = <<>>
    /\ executor = "None"
    /\ duration = 0
    /\ formatter = "newline"
    /\ attempts0 = None
    /\ Start

NextTrim ==
    \/ CheckAttempts
    \/ WriteMessage
    \/ WriteAttemptsFeedback
    \/ TakeWhitespaceLine
    \/ DecreaseAttempts
    \/ Preparse
    \/ TestString
    \/ ParseInput
    \/ TestProposal
    \/ GiveFeedback

SpecTrim == InitTrim /\ [][NextTrim]_vars

OnlyWhitespace(s) == \A i \in 1..Len(s) : s[i] \in Whitespace

\* C36: under the default configuration the preprocessor removes the
\* trailing whitespace of the line (its terminator included) and nothing
\* else, so a line made only of whitespace counts as empty input for the
\* default short-circuit and for the required check; and the default error
\* formatter writes each error text followed by exactly one line break.
C36_DefaultPreprocessorAndFormatter ==
    [][/\ pc = "preparser" =>
             LET line == Unwrap(preinput)
                 text == Unwrap(input')
             IN  /\ IsPrefix(text, line)
                 /\ OnlyWhitespace(SubSeq(line, Len(text) + 1, Len(line)))
                 /\ text # EmptyText => text[Len(text)] \notin Whitespace
                 /\ OnlyWhitespace(line) =>
                       /\ text = EmptyText
                       /\ (~required.flag /\ IsSome(default)) =>
                             pc' = "done" /\ result' = "Ok" /\ value' = default
       /\ (pc = "parse_input" /\ StepCompletes
             /\ OnlyWhitespace(Unwrap(preinput)) /\ required.flag) =>
             \E k \in 1..Len(StepEvents) :
                StepEvents[k] = Event("write_required", 0, required.msg \o <<"\n">>)
       /\ \A k \in 1..Len(StepEvents) :
             StepEvents[k].op \in {"write_error", "write_required"} =>
                \E t \in FailureTexts \cup {required.msg} :
                   /\ StepEvents[k].text = t \o <<"\n">>
                   /\ t[Len(t)] # "\n"
      ]_vars

\* A line of whitespace only made the resolution return the default.
C36_Witness ==
    /\ result = "Ok"
    /\ IsSome(default) /\ value = default
    /\ ~required.flag
    /\ Len(log) > 1
    /\ log[Len(log)].op = "return_default"
    /\ \E k \in 1..Len(log) :
          log[k] = Event("read_line", 4, <<"\t", " ", "\r", "\n">>)

====
